---------------------------- MODULE Spec2Model ----------------------------
(***************************************************************************)
(* Model of the Legacy System Adapter (class LegacySystemAdapter):         *)
(*   - the adapter facade `execute`, the retry loop `executeWithRetry`     *)
(*     and the metric counters, as asynchronous calls that interleave at   *)
(*     their await points;                                                 *)
(*   - the transformation pipeline `transform`, the schema mapper          *)
(*     (applySchemaMapping, mapFields, applyTransforms,                    *)
(*     applyTransformValue), the CSV codec (parseCSV, toCSV) and the       *)
(*     schema inference (inferSchema), as operators over a tagged          *)
(*     representation of JavaScript values.                                *)
(*                                                                         *)
(* JavaScript values are records tagged by `t`.  Text is a sequence of     *)
(* one-character strings, so that splitting, trimming, quoting and case    *)
(* folding are computed character by character.  An object is the          *)
(* sequence of its own properties in insertion order.                      *)
(***************************************************************************)
EXTENDS Integers, Sequences, FiniteSets, TLC

VARIABLES
    config,   \* AdapterConfig of the adapter instance (this.config, this.retryPolicy)
    metrics,  \* AdapterMetrics (this.metrics)
    calls,    \* the execute calls: position, locals, result
    fn,       \* which pure function a function-level specification exercises
    arg,      \* its argument
    ret,      \* its result (stage "none" until it has run)
    env       \* what the callers, the transport and the clock may supply

vars == <<config, metrics, calls, fn, arg, ret, env>>

----------------------------------------------------------------------------
(* JavaScript values *)

Undef == [t |-> "undefined"]
Null == [t |-> "null"]
NaN == [t |-> "NaN"]
Num(n) == [t |-> "number", n |-> n]
Bool(b) == [t |-> "boolean", b |-> b]
Text(s) == [t |-> "string", s |-> s]
Arr(items) == [t |-> "array", items |-> items]
Obj(e) == [t |-> "object", e |-> e]
Prop(k, v) == [k |-> k, v |-> v]

\* typeof value
TypeOf(v) ==
    CASE v.t = "undefined" -> "undefined"
      [] v.t \in {"number", "NaN"} -> "number"
      [] v.t = "boolean" -> "boolean"
      [] v.t = "string" -> "string"
      [] OTHER -> "object"       \* null, arrays and objects

IsArray(v) == v.t = "array"

\* The outcome of a call that may throw.
Ok(v) == [threw |-> FALSE, val |-> v]
Throw(kind, id) == [threw |-> TRUE, val |-> [t |-> "error", kind |-> kind, id |-> id]]

\* Own properties of an object, in insertion order.
HasKey(e, k) == \E i \in 1..Len(e) : e[i].k = k
IndexOfKey(e, k) == CHOOSE i \in 1..Len(e) : e[i].k = k
GetKey(e, k) == IF HasKey(e, k) THEN e[IndexOfKey(e, k)].v ELSE Undef
PutKey(e, k, v) ==
    IF HasKey(e, k) THEN [e EXCEPT ![IndexOfKey(e, k)].v = v]
    ELSE Append(e, Prop(k, v))
Keys(e) == [i \in 1..Len(e) |-> e[i].k]

\* item[key]: property read of a record (undefined when absent)
Get(v, k) == IF v.t = "object" THEN GetKey(v.e, k) ELSE Undef

----------------------------------------------------------------------------
(* Text *)

Digits == <<"0", "1", "2", "3", "4", "5", "6", "7", "8", "9">>
IsDigit(c) == \E i \in 1..10 : Digits[i] = c
DigitVal(c) == (CHOOSE i \in 1..10 : Digits[i] = c) - 1
IsSpace(c) == c \in {" ", "\t", "\n", "\r"}

RECURSIVE TrimStart(_)
TrimStart(s) == IF s # <<>> /\ IsSpace(Head(s)) THEN TrimStart(Tail(s)) ELSE s
RECURSIVE TrimEnd(_)
TrimEnd(s) ==
    IF s # <<>> /\ IsSpace(s[Len(s)]) THEN TrimEnd(SubSeq(s, 1, Len(s) - 1)) ELSE s
\* String.prototype.trim
Trim(s) == TrimEnd(TrimStart(s))

\* String.prototype.split with a one-character separator
RECURSIVE SplitFrom(_, _, _)
SplitFrom(s, d, cur) ==
    IF s = <<>> THEN <<cur>>
    ELSE IF Head(s) = d THEN <<cur>> \o SplitFrom(Tail(s), d, <<>>)
    ELSE SplitFrom(Tail(s), d, Append(cur, Head(s)))
Split(s, d) == SplitFrom(s, d, <<>>)

\* Array.prototype.join over texts
RECURSIVE Join(_, _)
Join(parts, d) ==
    IF parts = <<>> THEN <<>>
    ELSE IF Len(parts) = 1 THEN parts[1]
    ELSE parts[1] \o <<d>> \o Join(Tail(parts), d)

UpperChar(c) ==
    CASE c = "a" -> "A" [] c = "b" -> "B" [] c = "z" -> "Z" [] OTHER -> c
LowerChar(c) ==
    CASE c = "A" -> "a" [] c = "B" -> "b" [] c = "Z" -> "z" [] OTHER -> c
ToUpperCase(s) == [i \in 1..Len(s) |-> UpperChar(s[i])]
ToLowerCase(s) == [i \in 1..Len(s) |-> LowerChar(s[i])]

\* decimal digits of a natural number
RECURSIVE NatToText(_)
NatToText(n) ==
    IF n < 10 THEN <<Digits[n + 1]>> ELSE Append(NatToText(n \div 10), Digits[(n % 10) + 1])
RECURSIVE TextToNat(_)
TextToNat(s) ==
    IF s = <<>> THEN 0 ELSE TextToNat(SubSeq(s, 1, Len(s) - 1)) * 10 + DigitVal(s[Len(s)])
AllDigits(s) == \A i \in 1..Len(s) : IsDigit(s[i])

\* String(value) for the scalars of the model
ToText(v) ==
    CASE v.t = "string" -> v.s
      [] v.t = "number" -> NatToText(v.n)
      [] v.t = "NaN" -> <<"N", "a", "N">>
      [] v.t = "boolean" -> IF v.b THEN <<"t", "r", "u", "e">> ELSE <<"f", "a", "l", "s", "e">>
      [] v.t = "null" -> <<"n", "u", "l", "l">>
      [] v.t = "undefined" -> <<"u", "n", "d", "e", "f", "i", "n", "e", "d">>
      [] OTHER -> <<"[", "o", "b", "j", "e", "c", "t", "]">>

----------------------------------------------------------------------------
(* Value coercions used by the transforms *)

\* Number(value).  Text is trimmed; the empty text is 0; a run of decimal
\* digits is its value; any other text is NaN.  (Signs, fractions, exponents
\* and radix prefixes need characters that the texts of this model never hold.)
ToNumber(v) ==
    CASE v.t = "string" ->
            LET s == Trim(v.s) IN
            IF s = <<>> THEN Num(0) ELSE IF AllDigits(s) THEN Num(TextToNat(s)) ELSE NaN
      [] v.t = "number" -> v
      [] v.t = "NaN" -> NaN
      [] v.t = "boolean" -> IF v.b THEN Num(1) ELSE Num(0)
      [] v.t = "null" -> Num(0)
      [] v.t = "undefined" -> NaN
      [] v.t = "array" -> IF v.items = <<>> THEN Num(0) ELSE NaN
      [] OTHER -> NaN

\* Boolean(value)
Truthy(v) ==
    CASE v.t = "string" -> v.s # <<>>
      [] v.t = "number" -> v.n # 0
      [] v.t = "boolean" -> v.b
      [] v.t \in {"NaN", "null", "undefined"} -> FALSE
      [] OTHER -> TRUE

IsoYear(s) == Len(s) = 4 /\ AllDigits(s)
IsoDate(s) ==
    /\ Len(s) = 10
    /\ AllDigits(SubSeq(s, 1, 4)) /\ s[5] = "-"
    /\ AllDigits(SubSeq(s, 6, 7)) /\ s[8] = "-"
    /\ AllDigits(SubSeq(s, 9, 10))
    /\ TextToNat(SubSeq(s, 6, 7)) \in 1..12
    /\ TextToNat(SubSeq(s, 9, 10)) \in 1..28
TimeSuffix == <<"T", "0", "0", ":", "0", "0", ":", "0", "0", ".", "0", "0", "0", "Z">>
\* new Date(text): the ECMAScript date-time string formats YYYY and
\* YYYY-MM-DD are UTC; a text without any digit is no date in any engine
\* (time value NaN).  Other texts fall to the engine's legacy parser and are
\* kept out of the inputs; they are given an opaque valid time here.
DateParse(s) ==
    IF IsoYear(s) THEN [valid |-> TRUE, iso |-> s \o <<"-", "0", "1", "-", "0", "1">> \o TimeSuffix]
    ELSE IF IsoDate(s) THEN [valid |-> TRUE, iso |-> s \o TimeSuffix]
    ELSE IF \A i \in 1..Len(s) : ~IsDigit(s[i]) THEN [valid |-> FALSE, iso |-> <<>>]
    ELSE [valid |-> TRUE, iso |-> <<"l", "e", "g", "a", "c", "y">>]

\* Date.prototype.toISOString: RangeError on an invalid time value
ToISOString(d) ==
    IF d.valid THEN Ok(Text(d.iso)) ELSE Throw("RangeError: Invalid time value", 0)

TransformTypes == {"date", "number", "boolean", "uppercase", "lowercase", "custom"}

\* applyTransformValue(value, transformType); no value of the model is a Date
\* instance, so the date case takes the new Date(String(value)) branch.
ApplyTransformValue(value, transformType) ==
    CASE transformType = "uppercase" ->
            Ok(IF TypeOf(value) = "string" THEN Text(ToUpperCase(value.s)) ELSE value)
      [] transformType = "lowercase" ->
            Ok(IF TypeOf(value) = "string" THEN Text(ToLowerCase(value.s)) ELSE value)
      [] transformType = "number" -> Ok(ToNumber(value))
      [] transformType = "boolean" -> Ok(Bool(Truthy(value)))
      [] transformType = "date" -> ToISOString(DateParse(ToText(value)))
      [] OTHER -> Ok(value)

----------------------------------------------------------------------------
(* Schema mapper *)

\* A FieldTransform
FieldTransform(src, tgt, type) == [sourceField |-> src, targetField |-> tgt, transformType |-> type]

\* The body of the map callback of applyTransforms for one record: the
\* transforms in order, each reading the record as the earlier ones left it.
\* A transform that throws ends the whole map.
RECURSIVE TransformRecord(_, _)
RECURSIVE StoreTransformed(_, _, _)
StoreTransformed(e, transforms, r) ==
    IF r.threw THEN r
    ELSE TransformRecord(PutKey(e, Head(transforms).targetField, r.val), Tail(transforms))
TransformRecord(e, transforms) ==
    IF transforms = <<>> THEN Ok(e)
    ELSE IF HasKey(e, Head(transforms).sourceField)
    THEN StoreTransformed(e, transforms,
            ApplyTransformValue(GetKey(e, Head(transforms).sourceField),
                                Head(transforms).transformType))
    ELSE TransformRecord(e, Tail(transforms))

AsObject(r) == IF r.threw THEN r ELSE Ok(Obj(r.val))
TransformItem(item, transforms) ==
    IF item.t # "object" THEN Ok(item) ELSE AsObject(TransformRecord(item.e, transforms))

\* The array a map returns, or the first throw of its callback.
Collect(rs) ==
    IF \E i \in 1..Len(rs) : rs[i].threw
    THEN rs[CHOOSE i \in 1..Len(rs) : rs[i].threw /\ \A j \in 1..(i - 1) : ~rs[j].threw]
    ELSE Ok(Arr([i \in 1..Len(rs) |-> rs[i].val]))

\* applyTransforms(data, transforms): anything but an array is returned as it is.
ApplyTransforms(data, transforms) ==
    IF ~IsArray(data) THEN Ok(data)
    ELSE Collect([i \in 1..Len(data.items) |-> TransformItem(data.items[i], transforms)])

\* `key in data` and data[key] for the values typeof calls 'object'; an
\* array has its indices and length (inherited names are not among the keys
\* of the model).
IsIndex(items, k) ==
    k # <<>> /\ AllDigits(k) /\ NatToText(TextToNat(k)) = k /\ TextToNat(k) < Len(items)
InOp(data, k) ==
    CASE data.t = "object" -> HasKey(data.e, k)
      [] data.t = "array" -> IsIndex(data.items, k) \/ k = <<"l", "e", "n", "g", "t", "h">>
      [] OTHER -> FALSE
Member(data, k) ==
    CASE data.t = "object" -> GetKey(data.e, k)
      [] data.t = "array" ->
            IF IsIndex(data.items, k) THEN data.items[TextToNat(k) + 1] ELSE Num(Len(data.items))
      [] OTHER -> Undef

RECURSIVE MapEntries(_, _, _)
MapEntries(data, mapping, acc) ==
    IF mapping = <<>> THEN acc
    ELSE LET m == Head(mapping) IN
         MapEntries(data, Tail(mapping),
                    IF InOp(data, m.k) THEN PutKey(acc, m.v, Member(data, m.k)) ELSE acc)

\* mapFields(data, mapping): `in` on null throws a TypeError
MapFields(data, mapping) ==
    IF data.t = "null" /\ mapping # <<>>
    THEN Throw("TypeError: Cannot use 'in' operator", 0)
    ELSE Ok(Obj(MapEntries(data, mapping, <<>>)))

\* An optional member of the configuration.
Absent == [present |-> FALSE]
Present(v) == [present |-> TRUE, v |-> v]
SchemaMapping(sourceFields, transforms) ==
    [sourceFields |-> sourceFields, transforms |-> transforms]

\* The condition that sends the data through mapFields: sourceFields is
\* truthy (every object is, the empty one too) and typeof data is 'object'
\* (which an array's is).
RenameApplies(sourceFields, data) == sourceFields.present /\ TypeOf(data) = "object"

\* The second half of applySchemaMapping: the transforms over the result of
\* the rename step, and the counts.
MappingResult(sm, mapped, step2) ==
    IF step2.threw THEN step2
    ELSE Ok([data |-> step2.val, mapped |-> mapped,
             transformed |-> IF sm.transforms.present THEN Len(sm.transforms.v) ELSE 0])
TransformStep(sm, mapped, step1) ==
    IF step1.threw THEN step1
    ELSE MappingResult(sm, mapped,
            IF sm.transforms.present THEN ApplyTransforms(step1.val, sm.transforms.v)
            ELSE step1)

\* applySchemaMapping(data)
ApplySchemaMapping(schemaMapping, data) ==
    IF ~schemaMapping.present THEN Ok([data |-> data, mapped |-> 0, transformed |-> 0])
    ELSE IF RenameApplies(schemaMapping.v.sourceFields, data)
    THEN TransformStep(schemaMapping.v, Len(schemaMapping.v.sourceFields.v),
                       MapFields(data, schemaMapping.v.sourceFields.v))
    ELSE TransformStep(schemaMapping.v, 0, Ok(data))

----------------------------------------------------------------------------
(* CSV codec *)

\* JSON.stringify of a text: quotes around it, with quote, backslash and
\* newline escaped.
JsonChar(c) ==
    CASE c = "\"" -> <<"\\", "\"">>
      [] c = "\\" -> <<"\\", "\\">>
      [] c = "\n" -> <<"\\", "n">>
      [] OTHER -> <<c>>
RECURSIVE JsonChars(_)
JsonChars(s) == IF s = <<>> THEN <<>> ELSE JsonChar(Head(s)) \o JsonChars(Tail(s))
JsonQuote(s) == <<"\"">> \o JsonChars(s) \o <<"\"">>

\* JSON.stringify(value) for a scalar; the cells of the model's records are
\* scalars, so the text of a nested object or array is not spelled out.
JSONStringify(v) ==
    CASE v.t = "string" -> JsonQuote(v.s)
      [] v.t = "number" -> NatToText(v.n)
      [] v.t = "boolean" -> ToText(v)
      [] v.t \in {"NaN", "null"} -> <<"n", "u", "l", "l">>
      [] OTHER -> <<"{", "}">>

\* value ?? ''
OrEmptyText(v) == IF v.t \in {"null", "undefined"} THEN Text(<<>>) ELSE v

\* A cell of a row written by toCSV.
CsvCell(v) == JSONStringify(OrEmptyText(v))

\* toCSV(data) on an array of records: the header row is the first record's
\* own keys, every cell goes through JSON.stringify.
ToCSV(data) ==
    IF ~IsArray(data) \/ data.items = <<>> THEN <<>>
    ELSE LET first == data.items[1]
             headers == IF first.t = "object" THEN Keys(first.e) ELSE <<>>
             Row(item) == Join([j \in 1..Len(headers) |-> CsvCell(Get(item, headers[j]))], ",")
             rows == [i \in 1..Len(data.items) |-> Row(data.items[i])]
         IN Join(<<Join(headers, ",")>> \o rows, "\n")

\* lines.filter(line => line.trim())
RECURSIVE NonBlank(_)
NonBlank(lines) ==
    IF lines = <<>> THEN <<>>
    ELSE IF Trim(Head(lines)) # <<>> THEN <<Head(lines)>> \o NonBlank(Tail(lines))
    ELSE NonBlank(Tail(lines))

\* A cell read by parseCSV: values[idx]?.trim()
CsvValue(values, idx) == IF idx <= Len(values) THEN Text(Trim(values[idx])) ELSE Undef

\* headers.forEach((header, idx) => row[header.trim()] = values[idx]?.trim())
RECURSIVE CsvRow(_, _, _, _)
CsvRow(headers, values, idx, row) ==
    IF idx > Len(headers) THEN row
    ELSE CsvRow(headers, values, idx + 1,
                PutKey(row, Trim(headers[idx]), CsvValue(values, idx)))

\* parseCSV(csv)
ParseCSV(csv) ==
    LET lines == NonBlank(Split(csv, "\n")) IN
    IF lines = <<>> THEN Arr(<<>>)
    ELSE LET headers == Split(lines[1], ",") IN
         Arr([i \in 1..(Len(lines) - 1) |->
                Obj(CsvRow(headers, Split(lines[i + 1], ","), 1, <<>>))])

----------------------------------------------------------------------------
(* Transformation pipeline *)

\* What the XML codec (xml2js) gives back for a text: it is outside this
\* repository, so its result is an input of the pipeline: a parsed document
\* or a rejection.
XmlDocument == Obj(<<Prop(<<"r">>, Text(<<"a", "b">>))>>)
XmlResults == {Ok(XmlDocument), Throw("DecodeError: malformed XML", 0)}
\* What the XML builder gives back (its text is not modelled).
XmlText == Text(<<"<", "r", "/", ">">>)

\* Step 1 of transform: decode by source format.
Decode(sourceFormat, data, xml) ==
    CASE sourceFormat = "xml" /\ TypeOf(data) = "string" -> xml
      [] sourceFormat = "csv" /\ TypeOf(data) = "string" -> Ok(ParseCSV(data.s))
      [] sourceFormat = "soap" -> IF TypeOf(data) = "string" THEN xml ELSE Ok(data)
      [] OTHER -> Ok(data)

\* Step 3 of transform: encode by target format.
Encode(target, data) ==
    CASE target = "xml" /\ TypeOf(data) = "object" -> XmlText
      [] target = "csv" /\ IsArray(data) -> Text(ToCSV(data))
      [] OTHER -> data

\* fieldsMapped++ of the decode step
DecodedCount(sourceFormat, data) ==
    IF \/ sourceFormat \in {"xml", "csv"} /\ TypeOf(data) = "string"
       \/ sourceFormat = "soap"
    THEN 1 ELSE 0

\* The end of transform: encode, and the metadata.
Encoded(cfg, data, target, m) ==
    IF m.threw THEN m
    ELSE Ok([data |-> Encode(target, m.val.data),
             metadata |-> [sourceFormat |-> cfg.sourceFormat,
                           targetFormat |-> target,
                           fieldsMapped |-> IF cfg.schemaMapping.present THEN m.val.mapped
                                            ELSE DecodedCount(cfg.sourceFormat, data),
                           fieldsTransformed |-> m.val.transformed]])
Mapped(cfg, data, target, decoded) ==
    IF decoded.threw THEN decoded
    ELSE Encoded(cfg, data, target, ApplySchemaMapping(cfg.schemaMapping, decoded.val))

\* transform(data, targetFormat), with `xml` the XML codec's result
Transform(cfg, data, target, xml) ==
    Mapped(cfg, data, target, Decode(cfg.sourceFormat, data, xml))

----------------------------------------------------------------------------
(* Schema inference *)

Matches4_2_2(s) ==
    /\ Len(s) >= 10
    /\ AllDigits(SubSeq(s, 1, 4)) /\ s[5] = "-"
    /\ AllDigits(SubSeq(s, 6, 7)) /\ s[8] = "-"
    /\ AllDigits(SubSeq(s, 9, 10))
Matches2_2_4(s) ==
    /\ Len(s) >= 10
    /\ AllDigits(SubSeq(s, 1, 2)) /\ s[3] = "/"
    /\ AllDigits(SubSeq(s, 4, 5)) /\ s[6] = "/"
    /\ AllDigits(SubSeq(s, 7, 10))
\* looksLikeDate(value)
LooksLikeDate(v) == TypeOf(v) = "string" /\ (Matches4_2_2(v.s) \/ Matches2_2_4(v.s))

\* inferFieldType(value)
InferFieldType(v) ==
    IF v.t \in {"null", "undefined"} THEN "string"
    ELSE IF TypeOf(v) = "number" THEN "number"
    ELSE IF TypeOf(v) = "boolean" THEN "boolean"
    ELSE IF IsArray(v) THEN "array"
    ELSE IF TypeOf(v) = "object" THEN "object"
    ELSE IF TypeOf(v) = "string" /\ LooksLikeDate(v) THEN "date"
    ELSE "string"

IsNullish(v) == v.t \in {"null", "undefined"}

\* sampleData.some(item => item[key] === null || item[key] === undefined)
Nullable_FirstOnly(items, key) == IsNullish(Get(items[1], key))
Nullable(items, key) == \E i \in 1..Len(items) : IsNullish(Get(items[i], key))

SampleSlice == 5
\* sampleData.slice(0, 5).map(item => item[key])
SampleValues(items, key) ==
    [i \in 1..(IF Len(items) < SampleSlice THEN Len(items) ELSE SampleSlice) |-> Get(items[i], key)]

\* The fields pushed for Object.entries of the first element (the samples of
\* the model are records; item[key] of a null element would throw).
ArrayFields(items) ==
    LET first == items[1] IN
    IF first.t # "object" THEN <<>>
    ELSE [i \in 1..Len(first.e) |->
            [name |-> first.e[i].k,
             type |-> InferFieldType(first.e[i].v),
             nullable |-> Nullable(items, first.e[i].k),
             sampleValues |-> SampleValues(items, first.e[i].k)]]
ObjectFields(e) ==
    [i \in 1..Len(e) |->
        [name |-> e[i].k,
         type |-> InferFieldType(e[i].v),
         nullable |-> IsNullish(e[i].v),
         sampleValues |-> <<e[i].v>>]]

RECURSIVE DateFieldNames(_)
DateFieldNames(fields) ==
    IF fields = <<>> THEN <<>>
    ELSE LET f == Head(fields) IN
         (IF f.type = "string" /\ \E i \in 1..Len(f.sampleValues) : LooksLikeDate(f.sampleValues[i])
          THEN <<f.name>> ELSE <<>>) \o DateFieldNames(Tail(fields))

ConfidenceDivisor == 10
\* inferSchema({sampleData}); confidence = min(1, fields/10) is kept as the
\* fraction num/den.
InferSchema(sampleData) ==
    LET fields ==
            IF IsArray(sampleData) /\ sampleData.items # <<>> THEN ArrayFields(sampleData.items)
            ELSE IF sampleData.t = "object" THEN ObjectFields(sampleData.e)
            ELSE <<>>
        dates == DateFieldNames(fields)
    IN [fields |-> fields,
        confidence |-> [num |-> IF Len(fields) < ConfidenceDivisor THEN Len(fields)
                                ELSE ConfidenceDivisor,
                        den |-> ConfidenceDivisor],
        suggestions |->
            (IF fields = <<>> THEN <<[msg |-> "Unable to infer schema from empty or invalid data",
                                      names |-> <<>>]>> ELSE <<>>)
            \o (IF dates # <<>> THEN <<[msg |-> "Consider adding date transforms for",
                                        names |-> dates]>> ELSE <<>>)]

----------------------------------------------------------------------------
(* Function-level specifications: the inputs are drawn in the initial      *)
(* state, one action applies the function.  The adapter instance is idle.  *)

MaxRows == 2         \* records in a CSV input
MaxSample == 2       \* records in a schema-inference sample
MaxRecords == 2      \* records in a schema-mapper input
MaxTransforms == 2   \* transforms in a schema mapping

NotRun == [stage |-> "none"]
NoAdapter == [name |-> "none"]
NoEnv == [requests |-> {}, payloads |-> {}, durations |-> {}]
ZeroMetrics ==
    [requestsTotal |-> 0, requestsSuccess |-> 0, requestsFailed |-> 0,
     avgResponseTime |-> [num |-> 0, den |-> 1], totalBytesProcessed |-> 0]
IdleAdapter == config = NoAdapter /\ metrics = ZeroMetrics /\ calls = <<>> /\ env = NoEnv

\* sequences over S of length 1..n
SeqsUpTo(S, n) == UNION {[1..k -> S] : k \in 1..n}

KeyA == <<"a">>
KeyB == <<"b">>
KeyC == <<"c">>
KeyX == <<"x">>
KeyY == <<"y">>

(* CSV round trip *)
CellTexts == {Text(<<>>), Text(<<"1">>), Text(<<"2">>)}
CsvHeaders == {<<KeyA>>, <<KeyA, KeyB>>, <<KeyB, KeyA>>}
RecordsOver(headers, V) ==
    {Obj([i \in 1..Len(headers) |-> Prop(headers[i], f[i])]) : f \in [1..Len(headers) -> V]}
CsvInputs ==
    UNION {{Arr(items) : items \in SeqsUpTo(RecordsOver(h, CellTexts), MaxRows)} : h \in CsvHeaders}

InitCSV == IdleAdapter /\ fn = "csv" /\ arg \in CsvInputs /\ ret = NotRun

EncodeCSV ==
    /\ fn = "csv" /\ ret.stage = "none"
    /\ ret' = [stage |-> "encoded", text |-> ToCSV(arg)]
    /\ UNCHANGED <<config, metrics, calls, env, fn, arg>>

DecodeCSV ==
    /\ fn = "csv" /\ ret.stage = "encoded"
    /\ ret' = [stage |-> "decoded", text |-> ret.text, val |-> ParseCSV(ret.text)]
    /\ UNCHANGED <<config, metrics, calls, env, fn, arg>>

NextCSV == EncodeCSV \/ DecodeCSV
SpecCSV == InitCSV /\ [][NextCSV]_vars

(* Schema inference *)
KeyId == <<"i", "d">>
KeyName == <<"n", "a", "m", "e">>
IsoDay == <<"2", "0", "2", "0", "-", "0", "1", "-", "0", "2">>
NoProp == [t |-> "absent"]
IdCells == {Num(1), Num(2), Null, NoProp}
NameCells == {Text(<<"x">>), Text(IsoDay), Null, Undef, Bool(TRUE), NoProp}
SampleRecord(id, name) ==
    Obj((IF id = NoProp THEN <<>> ELSE <<Prop(KeyId, id)>>)
        \o (IF name = NoProp THEN <<>> ELSE <<Prop(KeyName, name)>>))
SampleRecords == {SampleRecord(id, name) : id \in IdCells, name \in NameCells}
InferInputs ==
    {Arr(items) : items \in SeqsUpTo(SampleRecords, MaxSample)}
    \cup SampleRecords \cup {Arr(<<>>), Num(1)}

InitInfer == IdleAdapter /\ fn = "infer" /\ arg \in InferInputs /\ ret = NotRun

RunInferSchema ==
    /\ fn = "infer" /\ ret.stage = "none"
    /\ ret' = [stage |-> "done", val |-> InferSchema(arg)]
    /\ UNCHANGED <<config, metrics, calls, env, fn, arg>>

NextInfer == RunInferSchema
SpecInfer == InitInfer /\ [][NextInfer]_vars

(* Value transforms *)
TransformInputs ==
    {Text(<<>>), Text(<<"a", "b">>), Text(<<"A", "b">>), Text(<<"z", "z">>),
     Text(<<"2", "0", "2", "0">>), Text(IsoDay), Num(2020),
     Null, Undef, Bool(TRUE), Bool(FALSE), NaN}

InitValue ==
    /\ IdleAdapter /\ fn = "value" /\ ret = NotRun
    /\ arg \in [value : TransformInputs, transformType : TransformTypes]

RunApplyTransformValue ==
    /\ fn = "value" /\ ret.stage = "none"
    /\ ret' = [stage |-> "done", out |-> ApplyTransformValue(arg.value, arg.transformType)]
    /\ UNCHANGED <<config, metrics, calls, env, fn, arg>>

NextValue == RunApplyTransformValue
SpecValue == InitValue /\ [][NextValue]_vars

(* Schema mapper *)
MapCells == {Text(<<"a", "b">>), Text(<<"z", "z">>), Text(<<"2", "0", "2", "0">>)}
MapRecords == RecordsOver(<<KeyA>>, MapCells) \cup RecordsOver(<<KeyA, KeyB>>, {Text(<<"a", "b">>)})
MapData ==
    {Arr(items) : items \in SeqsUpTo(MapRecords, MaxRecords)}
    \cup {Obj(<<Prop(KeyA, Num(1)), Prop(KeyB, Num(2)), Prop(KeyC, Num(3))>>),
          Obj(<<Prop(KeyA, Num(1))>>), Text(<<"a", "b">>)}
SourceFieldChoices ==
    {Absent, Present(<<>>), Present(<<Prop(KeyA, KeyX)>>),
     Present(<<Prop(KeyA, KeyX), Prop(KeyB, KeyY)>>)}
FieldTransforms ==
    {FieldTransform(KeyA, tgt, type) : tgt \in {KeyA, KeyX}, type \in TransformTypes}
TransformChoices ==
    {Absent} \cup {Present(ts) : ts \in SeqsUpTo(FieldTransforms, MaxTransforms)}
SchemaMappings ==
    {Present(SchemaMapping(sf, ts)) : sf \in SourceFieldChoices, ts \in TransformChoices}

InitMap ==
    /\ IdleAdapter /\ fn = "map" /\ ret = NotRun
    /\ arg \in [schemaMapping : SchemaMappings, data : MapData]

RunApplySchemaMapping ==
    /\ fn = "map" /\ ret.stage = "none"
    /\ ret' = [stage |-> "done", out |-> ApplySchemaMapping(arg.schemaMapping, arg.data)]
    /\ UNCHANGED <<config, metrics, calls, env, fn, arg>>

NextMap == RunApplySchemaMapping
SpecMap == InitMap /\ [][NextMap]_vars

----------------------------------------------------------------------------
(* The adapter facade: execute, executeWithRetry, the metric counters.     *)
(*                                                                         *)
(* A call of execute is an asynchronous function: it runs without          *)
(* interruption from one await to the next, and calls on the same adapter  *)
(* interleave only there.  Each action below is one such run of one call.  *)
(* calls[c].pc is the await the call is suspended at:                      *)
(*   "idle"       not called yet                                           *)
(*   "request"    awaiting this.httpClient.request(...)                    *)
(*   "sleep"      awaiting this.sleep(delay)                               *)
(*   "resolved"   executeWithRetry has returned, execute not yet resumed   *)
(*   "rejected"   executeWithRetry has thrown, execute not yet resumed     *)
(*   "transform"  awaiting this.transform(...)                             *)
(*   "done"       execute has returned its response                        *)
(*   "threw"      execute's own promise is rejected                        *)
(* attempts, delays, errors and cause are history: the transport requests  *)
(* issued, the delays slept, the errors the attempts raised, and where a   *)
(* failure came from.                                                      *)

MaxRetries == 6      \* largest maxRetries of a configured policy
MaxMultiplier == 3   \* largest backoffMultiplier of a configured policy
MaxDuration == 1     \* largest duration (ms) the clock measures for a call
MaxCalls == 2        \* concurrent execute calls on one adapter

DefaultMaxRetries == 3
DefaultInitialDelayMs == 1000
DefaultMaxDelayMs == 10000
DefaultBackoffMultiplier == 2

RetryPolicy(n, initial, max, mult) ==
    [maxRetries |-> n, initialDelayMs |-> initial, maxDelayMs |-> max, backoffMultiplier |-> mult]

\* this.retryPolicy = config.retryPolicy || { 3, 1000, 10000, 2 }
RetryPolicyOf(cfg) ==
    IF cfg.retryPolicy.present THEN cfg.retryPolicy.v
    ELSE RetryPolicy(DefaultMaxRetries, DefaultInitialDelayMs, DefaultMaxDelayMs,
                     DefaultBackoffMultiplier)

\* for (let attempt = 0; attempt <= maxRetries; attempt++)
LoopRuns_OneShort(attempt, maxRetries) == attempt < maxRetries
LoopRuns(attempt, maxRetries) == attempt <= maxRetries

\* if (attempt < maxRetries) { await this.sleep(delay); ... }
ShouldSleep_Never(attempt, maxRetries) == FALSE
ShouldSleep(attempt, maxRetries) == attempt < maxRetries

Min(a, b) == IF a < b THEN a ELSE b

\* delay = Math.min(delay * backoffMultiplier, maxDelayMs)
NextDelay_Uncapped(delay, policy) == delay * policy.backoffMultiplier
NextDelay(delay, policy) == Min(delay * policy.backoffMultiplier, policy.maxDelayMs)

\* url: request.endpoint || this.config.endpoint
Url(request, cfg) == IF request.endpoint.present THEN request.endpoint ELSE cfg.endpoint

\* The transport (axios) is outside this repository.  It rejects a request
\* that has no URL; any other request it resolves or rejects.
TransportCanResolve(url) == url.present

\* The error the transport raises for the attempt-th request of a call.
TransportError(attempt) == Throw("TransportError", attempt).val

RECURSIVE GCD(_, _)
GCD(a, b) == IF b = 0 THEN a ELSE GCD(b, a % b)
Fraction(num, den) == LET g == GCD(num, den) IN [num |-> num \div g, den |-> den \div g]

\* avgResponseTime = (avgResponseTime * (successCount - 1) + duration) / successCount
\* as an exact fraction (the rounding of the floating-point division is not modelled).
NewAvg(avg, successCount, duration) ==
    Fraction(avg.num * (successCount - 1) + duration * avg.den, avg.den * successCount)

\* this.metrics.requestsTotal++
CountRequest(m) == [m EXCEPT !.requestsTotal = @ + 1]

\* this.metrics.requestsFailed++
CountFailure_AsSuccess(m) == [m EXCEPT !.requestsSuccess = @ + 1]
CountFailure_Lost(m) == m
CountFailure(m) == [m EXCEPT !.requestsFailed = @ + 1]

\* this.metrics.requestsSuccess++ and the running average
CountSuccess(m, duration) ==
    [m EXCEPT !.requestsSuccess = @ + 1,
              !.avgResponseTime = NewAvg(@, m.requestsSuccess + 1, duration)]

Metadata(cfg, duration) == [duration |-> duration, adapter |-> cfg.name]

\* the response of the try block
SuccessResponse(cfg, data, duration) ==
    [success |-> TRUE, data |-> data, statusCode |-> 200, metadata |-> Metadata(cfg, duration)]
\* the response of the catch block; error stands for err.message
FailureResponse(cfg, err, duration) ==
    [success |-> FALSE, error |-> err, metadata |-> Metadata(cfg, duration)]
NoResponse == [success |-> FALSE, pending |-> TRUE]

\* Whether the catch block of execute completes: err.message of the null
\* that `throw lastError` raises when no attempt was made is a TypeError
\* inside the handler.
CatchCompletes_Rethrows(err) == FALSE
CatchCompletes(err) == err # Null

NoRequest == [method |-> "none", endpoint |-> Absent]
IdleCall ==
    [pc |-> "idle", request |-> NoRequest, attempt |-> 0, delay |-> 0, lastError |-> Null,
     result |-> Undef, response |-> NoResponse,
     attempts |-> 0, delays |-> <<>>, errors |-> <<>>, cause |-> "none"]

Policy == RetryPolicyOf(config)

\* The head of the retry loop for the given attempt index: issue the
\* request, or leave the loop and throw lastError.
LoopHead(call, attempt) ==
    IF LoopRuns(attempt, Policy.maxRetries)
    THEN [call EXCEPT !.pc = "request", !.attempt = attempt, !.attempts = @ + 1]
    ELSE [call EXCEPT !.pc = "rejected", !.attempt = attempt,
                      !.cause = IF call.lastError = Null THEN "none" ELSE "transport"]

\* execute(request) up to its first await: the counter, then the first
\* transport request of executeWithRetry.
Start(c) ==
    /\ calls[c].pc = "idle"
    /\ \E req \in env.requests :
         calls' = [calls EXCEPT ![c] =
                     LoopHead([@ EXCEPT !.request = req, !.delay = Policy.initialDelayMs,
                                        !.lastError = Null], 0)]
    /\ metrics' = CountRequest(metrics)
    /\ UNCHANGED <<config, env, fn, arg, ret>>

\* The transport resolves the request: executeWithRetry returns.
TransportSucceed(c) ==
    /\ calls[c].pc = "request"
    /\ TransportCanResolve(Url(calls[c].request, config))
    /\ \E data \in env.payloads :
         calls' = [calls EXCEPT ![c] = [@ EXCEPT !.pc = "resolved", !.result = data]]
    /\ UNCHANGED <<config, metrics, env, fn, arg, ret>>

\* The transport rejects the request: the catch block of the loop, up to
\* the sleep, the next request or the throw after the loop.
TransportFail(c) ==
    /\ calls[c].pc = "request"
    /\ LET call == calls[c]
           err == TransportError(call.attempts)
           caught == [call EXCEPT !.lastError = err, !.errors = Append(@, err)]
       IN calls' = [calls EXCEPT ![c] =
                      IF ShouldSleep(call.attempt, Policy.maxRetries)
                      THEN [caught EXCEPT !.pc = "sleep", !.delays = Append(@, call.delay)]
                      ELSE LoopHead(caught, call.attempt + 1)]
    /\ UNCHANGED <<config, metrics, env, fn, arg, ret>>

\* The backoff timer fires: the delay is multiplied and capped, the loop
\* goes round.
SleepDone(c) ==
    /\ calls[c].pc = "sleep"
    /\ calls' = [calls EXCEPT ![c] =
                   LoopHead([@ EXCEPT !.delay = NextDelay(@, Policy)], calls[c].attempt + 1)]
    /\ UNCHANGED <<config, metrics, env, fn, arg, ret>>

\* The rest of the try block once the data is there.
Succeed(c, data, duration) ==
    /\ metrics' = CountSuccess(metrics, duration)
    /\ calls' = [calls EXCEPT ![c] =
                   [@ EXCEPT !.pc = "done",
                             !.response = SuccessResponse(config, data, duration)]]

\* The catch block of execute.
Fail(c, err, cause, duration) ==
    /\ metrics' = CountFailure(metrics)
    /\ calls' = [calls EXCEPT ![c] =
                   IF CatchCompletes(err)
                   THEN [@ EXCEPT !.pc = "done", !.cause = cause,
                                  !.response = FailureResponse(config, err, duration)]
                   ELSE [@ EXCEPT !.pc = "threw", !.cause = cause]]

\* execute resumes with the result of executeWithRetry: a GET goes on to
\* the transformation pipeline, any other method returns the raw data.
ExecuteContinue(c) ==
    /\ calls[c].pc = "resolved"
    /\ IF calls[c].request.method = "GET"
       THEN /\ calls' = [calls EXCEPT ![c] = [@ EXCEPT !.pc = "transform"]]
            /\ UNCHANGED metrics
       ELSE \E duration \in env.durations : Succeed(c, calls[c].result, duration)
    /\ UNCHANGED <<config, env, fn, arg, ret>>

\* execute resumes with the outcome of transform.
Settle(c, out, duration) ==
    IF out.threw THEN Fail(c, out.val, "transform", duration) ELSE Succeed(c, out.val, duration)
TransformDone(c) ==
    /\ calls[c].pc = "transform"
    /\ \E xml \in XmlResults, duration \in env.durations :
         Settle(c, Transform(config, calls[c].result, config.targetFormat, xml), duration)
    /\ UNCHANGED <<config, env, fn, arg, ret>>

\* execute resumes with the error executeWithRetry threw.
ExecuteCatch(c) ==
    /\ calls[c].pc = "rejected"
    /\ \E duration \in env.durations :
         Fail(c, calls[c].lastError, calls[c].cause, duration)
    /\ UNCHANGED <<config, env, fn, arg, ret>>

Next ==
    \/ \E c \in DOMAIN calls : Start(c)
    \/ \E c \in DOMAIN calls : TransportSucceed(c)
    \/ \E c \in DOMAIN calls : TransportFail(c)
    \/ \E c \in DOMAIN calls : SleepDone(c)
    \/ \E c \in DOMAIN calls : ExecuteContinue(c)
    \/ \E c \in DOMAIN calls : TransformDone(c)
    \/ \E c \in DOMAIN calls : ExecuteCatch(c)

----------------------------------------------------------------------------
(* Configurations and environments *)

Pipeline(source, target, mapping) ==
    [sourceFormat |-> source, targetFormat |-> target, schemaMapping |-> mapping]
AdapterConfig(pipeline, endpoint, retryPolicy) ==
    [name |-> "legacy", sourceFormat |-> pipeline.sourceFormat,
     targetFormat |-> pipeline.targetFormat, schemaMapping |-> pipeline.schemaMapping,
     endpoint |-> endpoint, retryPolicy |-> retryPolicy]

Endpoint == Present("http://legacy/api")

PlainJson == Pipeline("json", "json", Absent)
CsvUppercase ==
    Pipeline("csv", "json",
             Present(SchemaMapping(Present(<<>>),
                                   Present(<<FieldTransform(KeyA, KeyA, "uppercase")>>))))
JsonDates ==
    Pipeline("json", "json",
             Present(SchemaMapping(Absent, Present(<<FieldTransform(KeyA, KeyA, "date")>>))))
XmlPlain == Pipeline("xml", "json", Absent)
JsonToCsv == Pipeline("json", "csv", Absent)
Pipelines == {PlainJson, CsvUppercase, JsonDates, XmlPlain, JsonToCsv}

DelayValues == {1, 1000, 10000}
Policies ==
    {RetryPolicy(n, i, m, k) :
        n \in 0..MaxRetries, i \in DelayValues, m \in DelayValues, k \in 1..MaxMultiplier}

\* every retry policy over a plain pipeline, and every pipeline under two
\* short policies
Configs ==
    {AdapterConfig(PlainJson, ep, rp) :
        ep \in {Absent, Endpoint}, rp \in {Absent} \cup {Present(p) : p \in Policies}}
    \cup {AdapterConfig(p, Endpoint, Present(RetryPolicy(n, 1000, 10000, 2))) :
            p \in Pipelines, n \in 0..1}

Requests == [method : {"GET", "POST"}, endpoint : {Absent, Endpoint}]
CsvBody == Text(<<"a", "\n", "z", "z">>)
Undated == Arr(<<Obj(<<Prop(KeyA, Text(<<"z", "z">>))>>)>>)
Dated == Arr(<<Obj(<<Prop(KeyA, Text(<<"2", "0", "2", "0">>))>>)>>)
Payloads == {CsvBody, Undated, Dated}

NoFunction == fn = "none" /\ arg = NotRun /\ ret = NotRun

\* One call of execute, over every configuration, request and payload.
Init ==
    /\ config \in Configs
    /\ metrics = ZeroMetrics
    /\ calls = [c \in {1} |-> IdleCall]
    /\ env = [requests |-> Requests, payloads |-> Payloads, durations |-> 0..MaxDuration]
    /\ NoFunction

Spec == Init /\ [][Next]_vars

\* MaxCalls calls of execute on one adapter, interleaved at their awaits.
InitConc ==
    /\ config \in {AdapterConfig(JsonDates, Endpoint, Present(RetryPolicy(n, 1000, 10000, 2))) :
                     n \in 0..1}
    /\ metrics = ZeroMetrics
    /\ calls = [c \in 1..MaxCalls |-> IdleCall]
    /\ env = [requests |-> [method : {"GET", "POST"}, endpoint : {Absent}],
              payloads |-> {Undated, Dated}, durations |-> 0..MaxDuration]
    /\ NoFunction

SpecConc == InitConc /\ [][Next]_vars

----------------------------------------------------------------------------
(* Properties *)

AllFailed(call) ==
    call.pc = "rejected" \/ (call.pc \in {"done", "threw"} /\ call.cause = "transport")

\* C1: with maxRetries = n >= 0, a call whose transport fails on every
\* attempt makes exactly n+1 transport attempts (never more while it runs),
\* and the error it then fails with and reports is the one raised by
\* attempt n+1, not an earlier one.
C1_AttemptsAndLastError ==
    \A c \in DOMAIN calls :
        /\ calls[c].attempts <= Policy.maxRetries + 1
        /\ AllFailed(calls[c]) =>
              /\ calls[c].attempts = Policy.maxRetries + 1
              /\ Len(calls[c].errors) = Policy.maxRetries + 1
              /\ \A k \in 1..Len(calls[c].errors) : calls[c].errors[k].id = k
              /\ calls[c].lastError = calls[c].errors[Policy.maxRetries + 1]
              /\ calls[c].lastError.id = Policy.maxRetries + 1
              /\ calls[c].pc = "done" => calls[c].response.error.id = Policy.maxRetries + 1

C1_Witness ==
    \E c \in DOMAIN calls :
        /\ calls[c].pc = "done" /\ calls[c].cause = "transport"
        /\ Policy.maxRetries = 3 /\ calls[c].attempts = 4
        /\ calls[c].response.error.id = 4

WellFormedPolicy(p) ==
    p.initialDelayMs > 0 /\ p.maxDelayMs >= p.initialDelayMs /\ p.backoffMultiplier >= 1

\* the delays 1000, 2000, 4000, 8000, 10000, 10000, ...
DoublingTo10000(i) ==
    CASE i = 1 -> 1000 [] i = 2 -> 2000 [] i = 3 -> 4000 [] i = 4 -> 8000 [] OTHER -> 10000

\* C2: under a policy with initialDelay > 0, maxDelay >= initialDelay and
\* backoffMultiplier >= 1, the delays a call has slept are non-decreasing
\* and none exceeds maxDelay: the first is initialDelay, each next one is
\* min(previous * backoffMultiplier, maxDelay); with 1000, 10000 and 2 they
\* are 1000, 2000, 4000, 8000, 10000, 10000, ...
C2_BackoffDelays ==
    \A c \in DOMAIN calls :
        WellFormedPolicy(Policy) =>
            /\ Len(calls[c].delays) >= 1 => calls[c].delays[1] = Policy.initialDelayMs
            /\ \A i \in 1..Len(calls[c].delays) : calls[c].delays[i] <= Policy.maxDelayMs
            /\ \A i \in 1..(Len(calls[c].delays) - 1) :
                  /\ calls[c].delays[i] <= calls[c].delays[i + 1]
                  /\ calls[c].delays[i + 1] =
                        IF calls[c].delays[i] * Policy.backoffMultiplier < Policy.maxDelayMs
                        THEN calls[c].delays[i] * Policy.backoffMultiplier
                        ELSE Policy.maxDelayMs
            /\ (/\ Policy.initialDelayMs = 1000 /\ Policy.maxDelayMs = 10000
                /\ Policy.backoffMultiplier = 2) =>
                  \A i \in 1..Len(calls[c].delays) : calls[c].delays[i] = DoublingTo10000(i)

C2_Witness ==
    \E c \in DOMAIN calls :
        calls[c].delays = <<1000, 2000, 4000, 8000, 10000, 10000>>

\* What one run of call c between two awaits does to the metrics, for the
\* runs of a call whose transport only fails (a step is a run of one call:
\* the call whose record changes).
C3_Run(c) ==
    /\ (calls[c].pc = "idle" /\ calls'[c].pc # "idle") =>
          metrics' = [metrics EXCEPT !.requestsTotal = @ + 1]
    /\ (/\ calls'[c] # calls[c] /\ calls[c].pc \in {"request", "sleep"}
        /\ calls'[c].pc \in {"request", "sleep", "rejected"}) =>
          metrics' = metrics
    /\ (calls[c].pc = "rejected" /\ calls'[c].pc # "rejected") =>
          /\ calls'[c].pc = "done"
          /\ calls'[c].response.success = FALSE
          /\ metrics' = [metrics EXCEPT !.requestsFailed = @ + 1]

\* C3: a call of execute whose transport fails on every attempt adds exactly
\* 1 to requestsTotal (when it starts) and exactly 1 to requestsFailed (when
\* it returns), returns success = false, and nothing it does changes
\* requestsSuccess or avgResponseTime.
C3_FailedExecuteMetrics == [][\A c \in DOMAIN calls : C3_Run(c)]_vars

C3_Witness ==
    \E c \in DOMAIN calls :
        /\ calls[c].pc = "done" /\ calls[c].cause = "transport"
        /\ calls[c].response.success = FALSE
        /\ metrics.requestsFailed >= 1
        /\ metrics.requestsSuccess >= 1 /\ metrics.avgResponseTime.num > 0

\* C4: no error leaves execute: a call never ends with its promise
\* rejected, and a call that met a failure (every transport attempt failed,
\* with or without an endpoint; the decode or a value transform threw)
\* returns success = false with the error's message and the metadata.
C4_NeverPropagates ==
    \A c \in DOMAIN calls :
        /\ calls[c].pc # "threw"
        /\ calls[c].pc = "done" =>
              IF calls[c].cause = "none"
              THEN calls[c].result # Undef /\ calls[c].response.success
              ELSE /\ calls[c].response.success = FALSE
                   /\ calls[c].response.error.t = "error"
                   /\ calls[c].response.metadata.adapter = config.name
                   /\ calls[c].response.metadata.duration \in env.durations

C4_Witness ==
    \E c \in DOMAIN calls :
        /\ calls[c].pc = "done" /\ calls[c].cause = "transform"
        /\ calls[c].response.success = FALSE
        /\ calls[c].response.error.kind = "RangeError: Invalid time value"

NoUrl(call) == call.pc # "idle" /\ ~Url(call.request, config).present

\* C5 as claimed: with no endpoint in the request or the configuration,
\* execute makes at most one attempt and sleeps no backoff.
C5_NotRetried ==
    \A c \in DOMAIN calls :
        NoUrl(calls[c]) => calls[c].attempts <= 1 /\ calls[c].delays = <<>>

\* C5 as amended: a missing endpoint is not looked for before the transport
\* call; the request fails in the transport and is retried like any other
\* failure, so execute makes maxRetries+1 attempts with maxRetries backoff
\* sleeps before it returns success = false.
C5_RetriedLikeAnyFailure ==
    \A c \in DOMAIN calls :
        NoUrl(calls[c]) =>
            /\ calls[c].pc \in {"request", "sleep", "rejected", "done"}
            /\ calls[c].pc \in {"rejected", "done"} =>
                  /\ calls[c].attempts = Policy.maxRetries + 1
                  /\ Len(calls[c].delays) = Policy.maxRetries
            /\ calls[c].pc = "done" => calls[c].response.success = FALSE

C5_Witness ==
    \E c \in DOMAIN calls :
        /\ NoUrl(calls[c]) /\ calls[c].pc = "done"
        /\ Policy.maxRetries >= 2
        /\ calls[c].attempts = Policy.maxRetries + 1
        /\ Len(calls[c].delays) = Policy.maxRetries

\* A transform whose source the earlier transforms left alone and whose
\* target no later transform writes.
Undisturbed(ts, j) ==
    /\ \A i \in 1..(j - 1) : ts[i].targetField # ts[j].sourceField
    /\ \A i \in (j + 1)..Len(ts) : ts[i].targetField # ts[j].targetField

\* C6: with a schema mapping that has transforms and a decoded value that
\* is a sequence of records, the mapper returns a sequence of the same
\* length in which every record that has a transform's sourceField carries
\* the transformed value under its targetField.
C6_TransformsEveryRecord ==
    (/\ fn = "map" /\ ret.stage = "done"
     /\ arg.schemaMapping.v.transforms.present
     /\ IsArray(arg.data)
     /\ ~ret.out.threw) =>
        /\ IsArray(ret.out.val.data)
        /\ Len(ret.out.val.data.items) = Len(arg.data.items)
        /\ \A i \in 1..Len(arg.data.items) :
             \A j \in 1..Len(arg.schemaMapping.v.transforms.v) :
                LET tr == arg.schemaMapping.v.transforms.v[j] IN
                (/\ HasKey(arg.data.items[i].e, tr.sourceField)
                 /\ Undisturbed(arg.schemaMapping.v.transforms.v, j)) =>
                    Ok(Get(ret.out.val.data.items[i], tr.targetField))
                      = ApplyTransformValue(Get(arg.data.items[i], tr.sourceField),
                                            tr.transformType)

\* C7: every value transform returns a value for every input: none throws.
C7_TransformsAreTotal ==
    (fn = "value" /\ ret.stage = "done") => ~ret.out.threw

\* records with the same fields and values, whatever the order of the fields
SameRecord(a, b) ==
    /\ a.t = "object" /\ b.t = "object"
    /\ {a.e[i].k : i \in 1..Len(a.e)} = {b.e[i].k : i \in 1..Len(b.e)}
    /\ \A i \in 1..Len(a.e) : GetKey(b.e, a.e[i].k) = a.e[i].v

\* C8: parseCSV of the text toCSV writes for a non-empty sequence of
\* records (same field names, text values without comma, newline or
\* surrounding blanks) is the original sequence of records.
C8_CsvRoundTrip ==
    (fn = "csv" /\ ret.stage = "decoded") =>
        /\ Len(ret.val.items) = Len(arg.items)
        /\ \A i \in 1..Len(arg.items) : SameRecord(ret.val.items[i], arg.items[i])

InferExample ==
    Arr(<<SampleRecord(Num(1), Text(<<"x">>)), SampleRecord(Num(2), Null)>>)

\* the type the inference documents for a value of the samples
DocumentedType(v) ==
    CASE v.t \in {"null", "undefined"} -> "string"
      [] v.t = "number" -> "number"
      [] v.t = "boolean" -> "boolean"
      [] v = Text(IsoDay) -> "date"
      [] OTHER -> "string"

\* C9: for a non-empty sequence of records, inferSchema gives one field per
\* field of the first record, in its order; its type comes from the first
\* record's value (null or missing gives string); nullable holds exactly
\* when some record of the whole sequence has the field null or missing.
\* For [{id:1,name:"x"},{id:2,name:null}]: id number, not nullable; name
\* string, nullable.
C9_InferSchemaFields ==
    (fn = "infer" /\ ret.stage = "done" /\ IsArray(arg) /\ arg.items # <<>>) =>
        /\ Len(ret.val.fields) = Len(arg.items[1].e)
        /\ \A i \in 1..Len(arg.items[1].e) :
             /\ ret.val.fields[i].name = arg.items[1].e[i].k
             /\ ret.val.fields[i].type = DocumentedType(arg.items[1].e[i].v)
             /\ ret.val.fields[i].nullable
                  <=> \E j \in 1..Len(arg.items) :
                        \/ ~HasKey(arg.items[j].e, arg.items[1].e[i].k)
                        \/ GetKey(arg.items[j].e, arg.items[1].e[i].k).t \in {"null", "undefined"}
        /\ arg = InferExample =>
             [i \in 1..2 |-> <<ret.val.fields[i].name, ret.val.fields[i].type,
                               ret.val.fields[i].nullable>>]
               = <<(<<KeyId, "number", FALSE>>), (<<KeyName, "string", TRUE>>)>>

C9_Witness ==
    /\ fn = "infer" /\ ret.stage = "done" /\ arg = InferExample
    /\ Len(ret.val.fields) = 2
    /\ ret.val.fields[2].nullable /\ ~ret.val.fields[1].nullable

InFlight == {c \in DOMAIN calls : calls[c].pc \in {"request", "sleep", "resolved", "rejected", "transform"}}
Made == {c \in DOMAIN calls : calls[c].pc # "idle"}

\* C10: however the calls of execute on one adapter interleave at their
\* awaits, requestsTotal = requestsSuccess + requestsFailed + the calls in
\* flight, requestsTotal is the number of calls made, and once every call
\* made has returned requestsTotal = requestsSuccess + requestsFailed.
C10_CountersConserved ==
    /\ metrics.requestsTotal
         = metrics.requestsSuccess + metrics.requestsFailed + Cardinality(InFlight)
    /\ metrics.requestsTotal = Cardinality(Made)
    /\ \A c \in DOMAIN calls : calls[c].pc # "threw"
    /\ InFlight = {} =>
         /\ metrics.requestsTotal = metrics.requestsSuccess + metrics.requestsFailed
         /\ metrics.requestsSuccess
              = Cardinality({c \in Made : calls[c].response.success})
         /\ metrics.requestsFailed
              = Cardinality({c \in Made : ~calls[c].response.success})

C10_Witness ==
    /\ \A c \in DOMAIN calls : calls[c].pc = "done"
    /\ Cardinality(DOMAIN calls) >= 2
    /\ metrics.requestsSuccess >= 1 /\ metrics.requestsFailed >= 1
    /\ metrics.requestsTotal = Cardinality(DOMAIN calls)

============================================================================
